---- MODULE Spec2Model ----
(***************************************************************************)
(* Study-session lifecycle, plan progress, hour aggregation and            *)
(* certificate issuance of the Target study tracker (src/main.py,          *)
(* src/models.py, src/utils.py).                                           *)
(*                                                                         *)
(* Each request handler is one atomic action (one request at a time, one   *)
(* commit per request).  Times are in seconds.  Hours are kept as integers *)
(* of hundredths (StudyPlan.completed_hours) or tenths (TotalHours,        *)
(* Certificate.total_hours) so that Python's round() can be computed.      *)
(* Columns that no modelled handler reads or writes after the insert       *)
(* (subtitle, date, type, task_id, mentor_feedback, deadline, issue_date,  *)
(* pdf_path) are left out of the rows.                                     *)
(***************************************************************************)
EXTENDS Integers, Sequences, FiniteSets, TLC

(* ---------------- bounds of the exploration ---------------- *)
\* requests served in one behaviour of Spec
MaxRequests == 3
\* requests served in one behaviour of CertSpec
MaxCertRequests == 4
\* requests admitted in one behaviour of ConcSpec
MaxConcRequests == 3
\* requests served in one behaviour of MentorSpec
MaxMentorRequests == 3
\* columns missing from the database found at startup
MaxMissing == 2
\* requests served in one behaviour of SyncSpec
MaxSyncRequests == 1
\* requests served in one behaviour of GateSpec
MaxGateRequests == 2
\* requests served in one behaviour of PlanSpec
MaxPlanRequests == 4
\* requests served in one behaviour of IsoSpec
MaxIsoRequests == 3
\* requests served in one behaviour of StatusSpec
MaxStatusRequests == 3
\* requests served in one behaviour of HoursSpec
MaxHoursRequests == 3
\* clock steps in one behaviour
MaxTicks == 1

(* ---------------- inputs ---------------- *)
\* users with role 'student' (User.id)
Students == {1, 2}
\* values of the 'subject' form field
Subjects == {"AWS", "OAB"}
\* values of the 'minutes' form field of /study/log: int() accepts any integer
MinuteInputs == {-30, 90}
\* amounts (seconds) by which the wall clock moves between two readings
ClockSteps == {30}
\* delay (seconds) between the two datetime.utcnow() calls of log_study
ReadGaps == {0} \cup ClockSteps
\* values of the 'hours' form field of /certificate/upload-external, in tenths
ExternalHours == {20}
\* values taken by uuid4().hex[:8].upper(): the first 8 hex digits of a UUID
HexPrefixes == {"0A1B2C3D", "FFEE0011"}
\* forms posted to /study/stop: comment, link and uploaded file name
StopForms ==
    { [comment |-> <<>>, link |-> <<>>, file |-> "None"],
      [comment |-> <<"done">>, link |-> <<"http://x">>, file |-> "proof.pdf"] }
\* files posted to /certificate/upload-external
ExternalFiles == {"None", "cert.pdf"}

\* values of the 'teacher_id' form field of /mentorship/request; "" stands
\* for a missing or empty field
TeacherIdForms == {"", "abc", "1", "3", "03", "6", "9"}

\* values of the query parameters of /admin: subject, date and sort; "" stands
\* for a parameter that is missing or empty
SubjectFilters == {"", "aws", "OAB"}
DateFilters == {"", "today", "2000-01-01"}
SortOrders == {"asc", "desc"}
\* the databases SQLALCHEMY_DATABASE_URI can name: DATABASE_URL or the default
Engines == {"postgresql", "sqlite"}

\* values of 'status' in the JSON body of /study/plan/update-status; "" stands
\* for a body without the key
StatusInputs == {"", "active", "archived", "backlog", "completed"}

None == <<>>
Some(v) == <<v>>

\* table users: role and is_approved by User.id
Users ==
    (1 :> [role |-> "student", is_approved |-> TRUE])
    @@ (2 :> [role |-> "student", is_approved |-> TRUE])
    @@ (3 :> [role |-> "teacher", is_approved |-> TRUE])
    @@ (4 :> [role |-> "admin", is_approved |-> TRUE])
    @@ (5 :> [role |-> "student", is_approved |-> FALSE])
    @@ (6 :> [role |-> "teacher", is_approved |-> FALSE])

VARIABLES
    clock,          \* datetime.utcnow(), seconds
    sessions,       \* table study_sessions; id = index
    plans,          \* table study_plans; id = index
    certificates,   \* table certificates; id = index
    pdfs,           \* certificates rendered under static/certificates
    uuid_next,      \* the next value uuid.uuid4() returns in generate_cert
    response,       \* outcome of the last request
    served,         \* number of requests served so far
    mentorships,    \* table mentorships; id = index
    view,           \* the page rendered by the last dashboard request
    tabs,           \* /study/start requests in flight, one per browser tab
    startup         \* progress of ensure_db_schema() at import of main.py

vars == <<clock, sessions, plans, certificates, pdfs, uuid_next, response, served,
          mentorships, view, tabs, startup>>

\* what the routes of study sessions, plans and certificates leave alone
other == <<mentorships, view, tabs, startup>>

(* ---------------- Python arithmetic ---------------- *)
Abs(n) == IF n < 0 THEN -n ELSE n

\* int(x) for x = n/d, d > 0: truncation toward zero
IntTrunc(n, d) == IF n >= 0 THEN n \div d ELSE -((-n) \div d)

\* Numerators for which the double nearest to an exact decimal tie lies above
\* the tie, so that round() moves away from zero; all other ties lie below it.
\* tenths of an hour: minutes m with m % 6 = 3, tabulated for m < 400
TenthsTiesUp ==
    {3, 27, 33, 39, 45, 63, 81, 93, 105, 111, 141, 147, 165, 171, 177, 201,
     207, 225, 231, 237, 249, 267, 279, 285, 297, 309, 327, 339, 345, 357,
     369, 387, 399}
\* hundredths of an hour: seconds s with s % 36 = 18; on the clock's grid of
\* 30 seconds these are the s = 30 * m of the table above
HundredthsTiesUp == { 30 * m : m \in TenthsTiesUp }

\* nearest integer to n/d for n >= 0, a tie going up iff tieUp
RoundNearest(n, d, tieUp) ==
    LET q == n \div d
        r == n % d
    IN  IF 2 * r < d THEN q
        ELSE IF 2 * r > d THEN q + 1
        ELSE IF tieUp THEN q + 1 ELSE q

\* round(m / 60, 1) * 10, m an integer number of minutes
RoundHours1(m) ==
    LET a == Abs(m)
        v == CASE a % 6 # 3 -> RoundNearest(a, 6, FALSE)
               [] a % 6 = 3 /\ a < 400 -> RoundNearest(a, 6, a \in TenthsTiesUp)
    IN  IF m < 0 THEN -v ELSE v

\* variant: round(m / 60) * 100, the number of digits forgotten
RoundHours2_NoDigits(m) ==
    LET a == Abs(m)
        v == RoundNearest(a, 60, (a \div 60) % 2 = 1)
    IN  100 * (IF m < 0 THEN -v ELSE v)

\* round(m / 60, 2) * 100, m an integer number of minutes (no tie exists:
\* 100 * m / 60 = 5 * m / 3)
RoundHours2(m) ==
    LET v == RoundNearest(5 * Abs(m), 3, FALSE)
    IN  IF m < 0 THEN -v ELSE v

\* variant: the hours are taken from the stored whole minutes, int(s / 60)
RoundSecondsToHours2_Truncated(s) == RoundHours2(IntTrunc(s, 60))

\* round((s / 60) / 60, 2) * 100, s a number of seconds
RoundSecondsToHours2(s) ==
    LET a == Abs(s)
        v == CASE a % 36 # 18 -> RoundNearest(a, 36, FALSE)
               [] a % 36 = 18 /\ a % 30 = 0 /\ a < 12000 ->
                      RoundNearest(a, 36, a \in HundredthsTiesUp)
    IN  IF s < 0 THEN -v ELSE v

(* ---------------- queries ---------------- *)
Ids(table) == 1 .. Len(table)

\* Query.first(): the row with the least id among the matching ones, 0 if none
First(S) == IF S = {} THEN 0 ELSE CHOOSE i \in S : \A j \in S : i <= j

\* variant: "active" taken to mean "not yet validated"
ActiveSessions_Unvalidated(u) ==
    { i \in Ids(sessions) : sessions[i].student_id = u /\ ~sessions[i].is_validated }

\* StudySession.query.filter_by(student_id=u, end_time=None)
ActiveSessions(u) ==
    { i \in Ids(sessions) : sessions[i].student_id = u /\ sessions[i].end_time = None }

\* target_subject = :subject in SQL: equal strings, case included
SameSubject(a, b) == a = b

\* StudyPlan.query.filter_by(student_id=u, target_subject=subject).first():
\* there is no ORDER BY, so the row is the matching one the table scan meets
\* first (heap_pos), 0 if none
MatchingPlan(u, subject) ==
    LET S == { i \in Ids(plans) : plans[i].student_id = u
                                  /\ SameSubject(plans[i].target_subject, subject) }
    IN  IF S = {} THEN 0
        ELSE CHOOSE i \in S : \A j \in S : plans[i].heap_pos <= plans[j].heap_pos

\* sum(s.duration_minutes for s in sessions if s.duration_minutes)
RECURSIVE SumMinutes(_, _)
SumMinutes(u, n) ==
    IF n = 0 THEN 0
    ELSE SumMinutes(u, n - 1)
         + (IF sessions[n].student_id = u THEN sessions[n].duration_minutes ELSE 0)

\* total_hours = round(total_minutes / 60, 1), in tenths of an hour
TotalHours(u) == RoundHours1(SumMinutes(u, Len(sessions)))

\* variant: the dashboard forgets the filter on the student
DashboardHours_AllStudents(u) ==
    RoundHours1(SumMinutes(1, Len(sessions)) + SumMinutes(2, Len(sessions)))

\* student_dashboard: sessions of current_user, total_minutes summed over
\* those with a truthy duration_minutes, total_hours = round(total_minutes / 60, 1)
DashboardHours(u) == RoundHours1(SumMinutes(u, Len(sessions)))

\* variant: the lookup forgets the filter on the code
CertByCode_NoFilter(code) == First(Ids(certificates))

\* Certificate.query.filter_by(verification_code=code).first()
CertByCode(code) ==
    First({ i \in Ids(certificates) : certificates[i].verification_code = code })

\* StudySession.subject.ilike('%f%'): f occurs in the subject, case ignored
ilike(subject, f) ==
    <<subject, f>> \in {<<"AWS", "aws">>, <<"OAB", "OAB">>}

\* the sessions kept by sessions_query: the subject filter if given, and the
\* date filter if given and well formed.  StudySession.date is the day of the
\* insert, and the clock of these behaviours stays within its first day,
\* which 'today' names and '2000-01-01' does not.
FilteredSessions(subject_filter, date_filter) ==
    { i \in Ids(sessions) :
        /\ subject_filter # "" => ilike(sessions[i].subject, subject_filter)
        /\ date_filter # "" => date_filter = "today" }

\* db.func.sum(StudySession.duration_minutes) over the rows with ids in S
RECURSIVE SumOf(_)
SumOf(S) ==
    IF S = {} THEN 0
    ELSE LET i == CHOOSE j \in S : TRUE
         IN  sessions[i].duration_minutes + SumOf(S \ {i})

\* users with role 'student'
StudentUsers == { i \in DOMAIN Users : Users[i].role = "student" }

\* total_minutes of a row of student_stats: the sum over the sessions joined
\* to the user, NULL for a user the outer join gave no session
StatMinutes(id) ==
    LET S == { i \in Ids(sessions) : sessions[i].student_id = id }
    IN  IF S = {} THEN None ELSE Some(SumOf(S))

\* a <= b in the engine's ORDER BY: NULL sorts below every value in SQLite
\* and above every value in PostgreSQL
OrderLeq(engine, a, b) ==
    IF a = None THEN engine = "sqlite" \/ b = None
    ELSE IF b = None THEN engine = "postgresql"
    ELSE a[1] <= b[1]

\* the orders of the student rows the engine may return for ORDER BY
\* total_minutes ASC or DESC; rows of equal total_minutes come in any order
RankOrders(engine, sort_order) ==
    { o \in [1 .. Cardinality(StudentUsers) -> StudentUsers] :
        /\ \A i, j \in DOMAIN o : o[i] = o[j] => i = j
        /\ \A i, j \in DOMAIN o :
              i < j => IF sort_order = "asc"
                       THEN OrderLeq(engine, StatMinutes(o[i]), StatMinutes(o[j]))
                       ELSE OrderLeq(engine, StatMinutes(o[j]), StatMinutes(o[i])) }

\* 'hours': round((s_minutes or 0) / 60, 1)
RankHours(id) ==
    RoundHours1(IF StatMinutes(id) = None THEN 0 ELSE StatMinutes(id)[1])

\* str(teacher_id).isdigit()
isdigit(f) == f \in {"1", "3", "03", "6", "9"}

\* the integer the database compares an all-digit string with in users.id = :id
IntOf(f) ==
    CASE f = "1" -> 1 [] f = "3" -> 3 [] f = "03" -> 3 [] f = "6" -> 6 [] f = "9" -> 9

\* User.query.filter_by(id=teacher_id, role='teacher').first(), 0 if none
TeacherById(f) ==
    First({ i \in DOMAIN Users : i = IntOf(f) /\ Users[i].role = "teacher" })

\* variant: the lookup before the insert finds nothing
ExistingMentorship_None(u, f) == 0

\* Mentorship.query.filter_by(student_id=u, teacher_id=teacher_id).first()
ExistingMentorship(u, f) ==
    First({ i \in Ids(mentorships) :
              mentorships[i].student_id = u /\ mentorships[i].teacher_id = IntOf(f) })

\* where an UPDATE leaves row p in the table scan: PostgreSQL writes a new
\* version of the row, which a scan meets after the rows that were not
\* touched; SQLite rewrites the row in place
Rewritten(tbl, p, engine) ==
    IF engine = "sqlite" THEN tbl
    ELSE [ i \in DOMAIN tbl |->
             IF i = p THEN [tbl[i] EXCEPT !.heap_pos = Len(tbl)]
             ELSE IF tbl[i].heap_pos > tbl[p].heap_pos
             THEN [tbl[i] EXCEPT !.heap_pos = @ - 1]
             ELSE tbl[i] ]

\* the plan-progress update shared by log_study and stop_session; no UPDATE
\* is issued when the value stays the same
AddProgress(u, subject, hundredths, engine) ==
    LET p == MatchingPlan(u, subject)
    IN  IF p = 0 \/ hundredths = 0 THEN plans
        ELSE Rewritten([plans EXCEPT ![p].completed_hours = @ + hundredths], p, engine)

\* variant: every requester is taken for the owner
OwnsSession_Anyone(u, sid) == TRUE

\* session.student_id != current_user.id, negated
OwnsSession(u, sid) == sessions[sid].student_id = u

\* variant: the gate also turns away a total of exactly one hour
Ineligible_AtOne(total_hours) == total_hours <= 10

\* if total_hours < 1
Ineligible(total_hours) == total_hours < 10

\* allowed_file(filename): the extension is one of ALLOWED_EXTENSIONS
allowed_file(f) == f \in {"proof.pdf", "cert.pdf"}

\* what the handler answers: endpoint, outcome, and the id of the row it acted
\* on or found (0 when none)
Reply(op, status, ref) == [op |-> op, status |-> status, ref |-> ref]

\* what a dashboard template is given: total_hours (tenths) and the ranking
Page(total_hours, ranking) == [total_hours |-> total_hours, ranking |-> ranking]

\* browser tabs of one student from which /study/start is posted
Tabs == {"tab1", "tab2"}
\* a tab with no request in flight
Idle == [pc |-> "idle", u |-> 0, subject |-> "", active |-> 0]

\* the columns ensure_db_schema() looks for, in the order of its checks
SchemaChecks ==
    << "users.is_approved", "users.needs_password_change",
       "users.profile_image_type", "users.search_intent",
       "study_sessions.task_id", "study_sessions.subtitle",
       "study_sessions.completion_comment", "study_sessions.completion_file",
       "study_sessions.completion_link",
       "certificates.is_external", "certificates.external_issuer",
       "study_plans.status" >>
SchemaColumns == { SchemaChecks[k] : k \in DOMAIN SchemaChecks }

\* ensure_db_schema() has returned and the routes are being served: pc, the
\* check that comes next, the base tables exist, the columns present, the
\* columns present at the last commit, the columns whose ALTER failed, and
\* the lines logged
Serving ==
    [ pc |-> "serving", k |-> 0, tables |-> TRUE, columns |-> SchemaColumns,
      committed |-> SchemaColumns, failed |-> {}, logged |-> <<>> ]

(* ---------------- initial state ---------------- *)
Init ==
    /\ clock = 0
    /\ sessions = <<>>
    /\ plans = <<>>
    /\ certificates = <<>>
    /\ pdfs = {}
    /\ uuid_next = 1
    /\ response = Reply("none", "none", 0)
    /\ served = 0
    /\ mentorships = <<>>
    /\ view = Page(0, <<>>)
    /\ tabs = [t \in Tabs |-> Idle]
    /\ startup = Serving

(* ---------------- environment ---------------- *)
\* time passes between two requests
Tick ==
    /\ \E d \in ClockSteps :
          /\ clock + d <= MaxTicks * 30
          /\ clock' = clock + d
    /\ UNCHANGED <<sessions, plans, certificates, pdfs, uuid_next, response, served>>
    /\ UNCHANGED other

\* one more request is taken
Serve == served' = served + 1

(* ---------------- access ---------------- *)
\* who sends a request: a logged-in user, or 0 for a visitor who is not
Callers == {0} \cup DOMAIN Users

\* return redirect(url_for(to)) of the decorator
Redirect(to) ==
    /\ Serve
    /\ response' = Reply("role_required", to, 0)
    /\ UNCHANGED <<clock, sessions, plans, certificates, pdfs, uuid_next>>
    /\ UNCHANGED other

\* variant: the decorator does not look at is_approved
role_required_NoApproval(role, caller, body) ==
    IF caller = 0 THEN Redirect("login")
    ELSE IF Users[caller].role # role THEN Redirect("dashboard")
    ELSE body

\* @role_required(role) around the handler body, for current_user = caller;
\* no decorated endpoint is named 'waiting'
role_required(role, caller, body) ==
    IF caller = 0 THEN Redirect("login")
    ELSE IF Users[caller].role # role THEN Redirect("dashboard")
    ELSE IF ~Users[caller].is_approved THEN Redirect("waiting")
    ELSE body

(* ---------------- teacher routes ---------------- *)
\* POST /teacher/plan/create
create_study_plan(t, student, subject, hours) ==
    /\ Serve
    /\ UNCHANGED other
    /\ plans' = Append(plans,
          [ student_id |-> student, mentor_id |-> t, target_subject |-> subject,
            target_hours |-> hours, completed_hours |-> 0, status |-> "active",
            heap_pos |-> Len(plans) + 1 ])
    /\ response' = Reply("create_study_plan", "success", Len(plans) + 1)
    /\ UNCHANGED <<clock, sessions, certificates, pdfs, uuid_next>>

(* ---------------- student routes ---------------- *)
\* POST /study/log
log_study(u, subject, minutes, gap) ==
    /\ Serve
    /\ UNCHANGED other
    /\ clock + gap <= MaxTicks * 30
    /\ LET t1 == clock          \* utcnow() read for start_time
           t2 == clock + gap    \* utcnow() read for end_time
       IN  /\ sessions' = Append(sessions,
                 [ student_id |-> u, subject |-> subject,
                   start_time |-> t1 - 60 * minutes, end_time |-> Some(t2),
                   duration_minutes |-> minutes, is_validated |-> TRUE,
                   completion_comment |-> None, completion_link |-> None,
                   completion_file |-> None ])
           /\ clock' = t2
    /\ \E e \in Engines : plans' = AddProgress(u, subject, RoundHours2(minutes), e)
    /\ response' = Reply("log_study", "success", Len(sessions) + 1)
    /\ UNCHANGED <<certificates, pdfs, uuid_next>>

\* variant: the handler does not look for an active session
start_session_NoCheck(u, subject) ==
    /\ Serve
    /\ UNCHANGED other
    /\ sessions' = Append(sessions,
          [ student_id |-> u, subject |-> subject,
            start_time |-> clock, end_time |-> None,
            duration_minutes |-> 0, is_validated |-> FALSE,
            completion_comment |-> None, completion_link |-> None,
            completion_file |-> None ])
    /\ response' = Reply("start_session", "success", Len(sessions) + 1)
    /\ UNCHANGED <<clock, plans, certificates, pdfs, uuid_next>>

\* POST /study/start
start_session(u, subject) ==
    /\ Serve
    /\ UNCHANGED other
    /\ IF ActiveSessions(u) # {}
       THEN /\ response' = Reply("start_session", "ConflictError", First(ActiveSessions(u)))
            /\ UNCHANGED <<clock, sessions, plans, certificates, pdfs, uuid_next>>
       ELSE /\ sessions' = Append(sessions,
                  [ student_id |-> u, subject |-> subject,
                    start_time |-> clock, end_time |-> None,
                    duration_minutes |-> 0, is_validated |-> FALSE,
                    completion_comment |-> None, completion_link |-> None,
                    completion_file |-> None ])
            /\ response' = Reply("start_session", "success", Len(sessions) + 1)
            /\ UNCHANGED <<clock, plans, certificates, pdfs, uuid_next>>

\* POST /study/start, first half, run for the request of browser tab t: the
\* query for the student's session without end_time
start_session_lookup(t, u, subject) ==
    /\ tabs[t].pc = "idle"
    /\ Serve
    /\ tabs' = [tabs EXCEPT ![t] = [ pc |-> "looked", u |-> u, subject |-> subject,
                                     active |-> First(ActiveSessions(u)) ]]
    /\ UNCHANGED <<clock, sessions, plans, certificates, pdfs, uuid_next, response>>
    /\ UNCHANGED <<mentorships, view, startup>>

\* variant: the insert is refused when the student has an open session at
\* the time of the commit, as under an exclusion constraint
start_session_commit_Exclusive(t) ==
    /\ tabs[t].pc = "looked"
    /\ IF tabs[t].active # 0 \/ ActiveSessions(tabs[t].u) # {}
       THEN /\ response' = Reply("start_session", "ConflictError", tabs[t].active)
            /\ UNCHANGED sessions
       ELSE /\ sessions' = Append(sessions,
                  [ student_id |-> tabs[t].u, subject |-> tabs[t].subject,
                    start_time |-> clock, end_time |-> None,
                    duration_minutes |-> 0, is_validated |-> FALSE,
                    completion_comment |-> None, completion_link |-> None,
                    completion_file |-> None ])
            /\ response' = Reply("start_session", "success", Len(sessions) + 1)
    /\ tabs' = [tabs EXCEPT ![t] = Idle]
    /\ UNCHANGED <<clock, plans, certificates, pdfs, uuid_next, served>>
    /\ UNCHANGED <<mentorships, view, startup>>

\* POST /study/start, second half: the early return on what the query found,
\* or the insert and its commit
start_session_commit(t) ==
    /\ tabs[t].pc = "looked"
    /\ IF tabs[t].active # 0
       THEN /\ response' = Reply("start_session", "ConflictError", tabs[t].active)
            /\ UNCHANGED sessions
       ELSE /\ sessions' = Append(sessions,
                  [ student_id |-> tabs[t].u, subject |-> tabs[t].subject,
                    start_time |-> clock, end_time |-> None,
                    duration_minutes |-> 0, is_validated |-> FALSE,
                    completion_comment |-> None, completion_link |-> None,
                    completion_file |-> None ])
            /\ response' = Reply("start_session", "success", Len(sessions) + 1)
    /\ tabs' = [tabs EXCEPT ![t] = Idle]
    /\ UNCHANGED <<clock, plans, certificates, pdfs, uuid_next, served>>
    /\ UNCHANGED <<mentorships, view, startup>>

\* POST /study/stop/<session_id>
stop_session(u, sid, form) ==
    /\ Serve
    /\ UNCHANGED other
    /\ IF sid \notin Ids(sessions)
       THEN /\ response' = Reply("stop_session", "NotFoundError", 0)
            /\ UNCHANGED <<clock, sessions, plans, certificates, pdfs, uuid_next>>
       ELSE IF ~OwnsSession(u, sid)
       THEN /\ response' = Reply("stop_session", "AuthorizationError", sid)
            /\ UNCHANGED <<clock, sessions, plans, certificates, pdfs, uuid_next>>
       ELSE LET s == sessions[sid]
                \* (session.end_time - session.start_time).total_seconds()
                seconds == clock - s.start_time
            IN  /\ sessions' = [sessions EXCEPT ![sid] =
                      [ s EXCEPT !.end_time = Some(clock),
                                 !.duration_minutes = IntTrunc(seconds, 60),
                                 !.is_validated = TRUE,
                                 !.completion_comment = form.comment,
                                 !.completion_link = form.link,
                                 !.completion_file =
                                     IF form.file # "None" /\ allowed_file(form.file)
                                     THEN Some(<<clock, form.file>>) ELSE @ ]]
                /\ \E e \in Engines :
                      plans' = AddProgress(u, s.subject, RoundSecondsToHours2(seconds), e)
                /\ response' = Reply("stop_session", "success", sid)
                /\ UNCHANGED <<clock, certificates, pdfs, uuid_next>>

\* variant: the handler flips is_validated
validate_focus_Toggle(u, sid) ==
    /\ Serve
    /\ UNCHANGED other
    /\ IF sid \notin Ids(sessions)
       THEN /\ response' = Reply("validate_focus", "NotFoundError", 0)
            /\ UNCHANGED <<clock, sessions, plans, certificates, pdfs, uuid_next>>
       ELSE IF sessions[sid].student_id # u
       THEN /\ response' = Reply("validate_focus", "AuthorizationError", sid)
            /\ UNCHANGED <<clock, sessions, plans, certificates, pdfs, uuid_next>>
       ELSE /\ sessions' = [sessions EXCEPT ![sid].is_validated = ~@]
            /\ response' = Reply("validate_focus", "success", sid)
            /\ UNCHANGED <<clock, plans, certificates, pdfs, uuid_next>>

\* POST /study/validate/<session_id>
validate_focus(u, sid) ==
    /\ Serve
    /\ UNCHANGED other
    /\ IF sid \notin Ids(sessions)
       THEN /\ response' = Reply("validate_focus", "NotFoundError", 0)
            /\ UNCHANGED <<clock, sessions, plans, certificates, pdfs, uuid_next>>
       ELSE IF sessions[sid].student_id # u
       THEN /\ response' = Reply("validate_focus", "AuthorizationError", sid)
            /\ UNCHANGED <<clock, sessions, plans, certificates, pdfs, uuid_next>>
       ELSE /\ sessions' = [sessions EXCEPT ![sid].is_validated = TRUE]
            /\ response' = Reply("validate_focus", "success", sid)
            /\ UNCHANGED <<clock, plans, certificates, pdfs, uuid_next>>

\* GET /student
student_dashboard(u) ==
    /\ Serve
    /\ view' = Page(DashboardHours(u), <<>>)
    /\ response' = Reply("student_dashboard", "success", 0)
    /\ UNCHANGED <<clock, sessions, plans, certificates, pdfs, uuid_next>>
    /\ UNCHANGED <<mentorships, tabs, startup>>

(* ---------------- startup ---------------- *)
\* db.create_all() in its own try: the missing tables are created, or the
\* failure is logged
sync_create_all(ok) ==
    /\ startup.pc = "create_all"
    /\ startup' =
          IF ok THEN [startup EXCEPT !.pc = "inspect", !.tables = TRUE]
          ELSE [startup EXCEPT !.pc = "inspect",
                               !.logged = Append(@, "create_all")]
    /\ UNCHANGED <<clock, sessions, plans, certificates, pdfs, uuid_next, response,
                   served, mentorships, view, tabs>>

\* except Exception of the second try: what the engine does with the ALTERs
\* made on the connection before the failure, one line logged, return
SyncAbort(engine, col) ==
    [startup EXCEPT !.pc = "serving",
                    !.columns = IF engine = "postgresql" THEN startup.committed ELSE @,
                    !.failed = @ \cup {col},
                    !.logged = Append(@, "sync")]

\* inspector.get_columns(...): the columns are read, or the table is not there
sync_inspect ==
    /\ startup.pc = "inspect"
    /\ \E e \in Engines :
          startup' = IF startup.tables THEN [startup EXCEPT !.pc = "check", !.k = 1]
                     ELSE SyncAbort(e, "users")
    /\ UNCHANGED <<clock, sessions, plans, certificates, pdfs, uuid_next, response,
                   served, mentorships, view, tabs>>

\* one "if column not in columns: conn.execute(ALTER TABLE ...)"; ok tells
\* whether the statement succeeds.  For users.is_approved the statement is a
\* RENAME of is_active when that column is there.
sync_check(ok, engine) ==
    /\ startup.pc = "check"
    /\ LET k == startup.k
           col == SchemaChecks[k]
           next == IF k = Len(SchemaChecks) THEN "commit" ELSE "check"
       IN  startup' =
              IF col \in startup.columns THEN [startup EXCEPT !.pc = next, !.k = k + 1]
              ELSE IF ok
              THEN [startup EXCEPT !.pc = next, !.k = k + 1,
                                   !.columns = (@ \cup {col}) \ {"users.is_active"},
                                   !.committed = IF engine = "sqlite"
                                                 THEN (@ \cup {col}) \ {"users.is_active"}
                                                 ELSE @]
              ELSE SyncAbort(engine, col)
    /\ UNCHANGED <<clock, sessions, plans, certificates, pdfs, uuid_next, response,
                   served, mentorships, view, tabs>>

\* conn.commit() and the last line of the try
sync_commit(ok, engine) ==
    /\ startup.pc = "commit"
    /\ startup' = IF ok THEN [startup EXCEPT !.pc = "serving", !.committed = startup.columns]
                  ELSE SyncAbort(engine, "commit")
    /\ UNCHANGED <<clock, sessions, plans, certificates, pdfs, uuid_next, response,
                   served, mentorships, view, tabs>>

\* GET /health: User.query.first() selects every mapped column of users
health_check ==
    /\ startup.pc = "serving"
    /\ Serve
    /\ response' =
          IF startup.tables
             /\ \A k \in 1 .. 4 : SchemaChecks[k] \in startup.columns
          THEN Reply("health_check", "healthy", 200)
          ELSE Reply("health_check", "unhealthy", 500)
    /\ UNCHANGED <<clock, sessions, plans, certificates, pdfs, uuid_next>>
    /\ UNCHANGED other

(* ---------------- admin routes ---------------- *)
\* GET /admin
admin_dashboard(engine, subject_filter, date_filter, sort_order) ==
    /\ Serve
    /\ \E o \in RankOrders(engine, sort_order) :
          view' = Page(RoundHours1(SumOf(FilteredSessions(subject_filter, date_filter))),
                       [ i \in DOMAIN o |-> [id |-> o[i], hours |-> RankHours(o[i])] ])
    /\ response' = Reply("admin_dashboard", "success", 0)
    /\ UNCHANGED <<clock, sessions, plans, certificates, pdfs, uuid_next>>
    /\ UNCHANGED <<mentorships, tabs, startup>>

\* variant: every requester is taken for the plan's student
OwnsPlan_Anyone(u, plan_id) == TRUE

\* plan.student_id != current_user.id, negated
OwnsPlan(u, plan_id) == plans[plan_id].student_id = u

\* variant: any status that is given is accepted
ValidStatus_AnyGiven(new_status) == new_status # ""

\* new_status in ['backlog', 'active', 'completed']
ValidStatus(new_status) == new_status \in {"backlog", "active", "completed"}

\* POST /study/plan/update-status/<plan_id>; no UPDATE is issued when the
\* status stays the same
update_plan_status(u, plan_id, new_status) ==
    /\ Serve
    /\ UNCHANGED other
    /\ IF plan_id \notin Ids(plans)
       THEN /\ response' = Reply("update_plan_status", "NotFoundError", 0)
            /\ UNCHANGED plans
       ELSE IF ~OwnsPlan(u, plan_id)
       THEN /\ response' = Reply("update_plan_status", "AuthorizationError", plan_id)
            /\ UNCHANGED plans
       ELSE IF ValidStatus(new_status)
       THEN /\ \E e \in Engines :
                  plans' = IF plans[plan_id].status = new_status THEN plans
                           ELSE Rewritten([plans EXCEPT ![plan_id].status = new_status],
                                          plan_id, e)
            /\ response' = Reply("update_plan_status", "success", plan_id)
       ELSE /\ response' = Reply("update_plan_status", "ValidationError", plan_id)
            /\ UNCHANGED plans
    /\ UNCHANGED <<clock, sessions, certificates, pdfs, uuid_next>>

\* POST /mentorship/request
request_mentorship(u, teacher_id) ==
    /\ Serve
    /\ IF teacher_id = "" \/ ~isdigit(teacher_id)
       THEN /\ response' = Reply("request_mentorship", "ValidationError", 0)
            /\ UNCHANGED mentorships
       ELSE IF TeacherById(teacher_id) = 0
       THEN /\ response' = Reply("request_mentorship", "NotFoundError", 0)
            /\ UNCHANGED mentorships
       ELSE IF ExistingMentorship(u, teacher_id) # 0
       THEN /\ response' = Reply("request_mentorship", "ConflictError",
                                 ExistingMentorship(u, teacher_id))
            /\ UNCHANGED mentorships
       ELSE /\ mentorships' = Append(mentorships,
                  [ student_id |-> u, teacher_id |-> IntOf(teacher_id),
                    status |-> "active" ])
            /\ response' = Reply("request_mentorship", "success", Len(mentorships) + 1)
    /\ UNCHANGED <<clock, sessions, plans, certificates, pdfs, uuid_next>>
    /\ UNCHANGED <<view, tabs, startup>>

\* variant: the column verification_code is not declared UNIQUE
InsertCertificate_NotUnique(cert) == Append(certificates, cert)

\* db.session.add(cert); db.session.commit(): the column verification_code is
\* UNIQUE, a duplicate makes the commit fail and nothing is stored
InsertCertificate(cert) ==
    IF CertByCode(cert.verification_code) # 0
    THEN certificates
    ELSE Append(certificates, cert)

\* GET /certificate/generate
generate_cert(u) ==
    /\ Serve
    /\ UNCHANGED other
    /\ LET total_hours == TotalHours(u)
       IN  IF Ineligible(total_hours)
           THEN /\ response' = Reply("generate_cert", "IneligibleError", 0)
                /\ UNCHANGED <<clock, sessions, plans, certificates, pdfs, uuid_next>>
           ELSE LET v_code == <<"uuid4", uuid_next>>
                    cert == [ student_id |-> u, verification_code |-> v_code,
                              total_hours |-> total_hours, is_external |-> FALSE,
                              external_issuer |-> "None" ]
                IN  /\ uuid_next' = uuid_next + 1
                    /\ pdfs' = pdfs \cup
                          {[ code |-> v_code, student |-> u, total_hours |-> total_hours ]}
                    /\ certificates' = InsertCertificate(cert)
                    /\ response' =
                          IF certificates' = certificates
                          THEN Reply("generate_cert", "IntegrityError", 0)
                          ELSE Reply("generate_cert", "success", Len(certificates'))
                    /\ UNCHANGED <<clock, sessions, plans>>

\* POST /certificate/upload-external
upload_external_certificate(u, hours, file, prefix) ==
    /\ Serve
    /\ UNCHANGED other
    /\ IF file = "None" \/ ~allowed_file(file)
       THEN /\ response' = Reply("upload_external_certificate", "InvalidFile", 0)
            /\ UNCHANGED <<clock, sessions, plans, certificates, pdfs, uuid_next>>
       ELSE LET cert == [ student_id |-> u, verification_code |-> <<"EXT", prefix>>,
                          total_hours |-> hours, is_external |-> TRUE,
                          external_issuer |-> "Externo" ]
            IN  /\ certificates' = InsertCertificate(cert)
                /\ response' =
                      IF certificates' = certificates
                      THEN Reply("upload_external_certificate", "IntegrityError", 0)
                      ELSE Reply("upload_external_certificate", "success",
                                 Len(certificates'))
                /\ UNCHANGED <<clock, sessions, plans, pdfs, uuid_next>>

(* ---------------- public route ---------------- *)
\* GET /verify/<code>
verify_certificate(code) ==
    /\ Serve
    /\ UNCHANGED other
    /\ LET cert == CertByCode(code)
       IN  response' = Reply("verify_certificate",
                             IF cert = 0 THEN "not_found" ELSE "found", cert)
    /\ UNCHANGED <<clock, sessions, plans, certificates, pdfs, uuid_next>>

(* ---------------- specifications ---------------- *)
Teachers == {3}
\* values of the 'hours' form field of /teacher/plan/create
TargetHours == {10}
\* values of <session_id> in the URL: ids that exist and ids that do not
SessionIds == 1 .. MaxCertRequests
\* codes a visitor may ask about: codes the model can issue and one it cannot
VerifyInputs ==
    { <<"uuid4", n>> : n \in 0 .. MaxCertRequests } \cup { <<"EXT", p>> : p \in HexPrefixes }

\* the study-session lifecycle and plan progress
Next ==
    \/ Tick
    \/ /\ served < MaxRequests
       /\ \E t \in Teachers, u \in Students, subject \in Subjects, h \in TargetHours :
             create_study_plan(t, u, subject, h)
    \/ /\ served < MaxRequests
       /\ \E u \in Students, subject \in Subjects, m \in MinuteInputs, gap \in ReadGaps :
             log_study(u, subject, m, gap)
    \/ /\ served < MaxRequests
       /\ \E u \in Students, subject \in Subjects : start_session(u, subject)
    \/ /\ served < MaxRequests
       /\ \E u \in Students, sid \in SessionIds, form \in StopForms :
             stop_session(u, sid, form)
    \/ /\ served < MaxRequests
       /\ \E u \in Students, sid \in SessionIds : validate_focus(u, sid)

Spec == Init /\ [][Next]_vars

\* certificate issuance and verification over sessions of one subject
CertNext ==
    \/ Tick
    \/ /\ served < MaxCertRequests
       /\ \E u \in Students, m \in MinuteInputs : log_study(u, "AWS", m, 0)
    \/ /\ served < MaxCertRequests
       /\ \E u \in Students : start_session(u, "AWS")
    \/ /\ served < MaxCertRequests
       /\ \E u \in Students, sid \in SessionIds, form \in StopForms :
             stop_session(u, sid, form)
    \/ /\ served < MaxCertRequests
       /\ \E u \in Students : generate_cert(u)
    \/ /\ served < MaxCertRequests
       /\ \E u \in Students, h \in ExternalHours, f \in ExternalFiles, p \in HexPrefixes :
             upload_external_certificate(u, h, f, p)
    \/ /\ served < MaxCertRequests
       /\ \E code \in VerifyInputs : verify_certificate(code)

CertSpec == Init /\ [][CertNext]_vars

\* /study/start served by two workers at once: the requests of two browser
\* tabs interleave between the query and the commit
ConcNext ==
    \/ Tick
    \/ /\ served < MaxConcRequests
       /\ \E t \in Tabs, u \in Students, subject \in Subjects :
             start_session_lookup(t, u, subject)
    \/ \E t \in Tabs : start_session_commit(t)
    \/ /\ served < MaxConcRequests
       /\ \E u \in Students, sid \in SessionIds, form \in StopForms :
             stop_session(u, sid, form)

ConcSpec == Init /\ [][ConcNext]_vars

\* mentorship requests, one at a time
MentorNext ==
    /\ served < MaxMentorRequests
    /\ \E u \in Students, f \in TeacherIdForms : request_mentorship(u, f)

MentorSpec == Init /\ [][MentorNext]_vars

\* the database found at startup: the base tables there or not, and at most
\* MaxMissing of the columns missing (users.is_active being the old name of
\* users.is_approved)
SyncInit ==
    /\ clock = 0
    /\ sessions = <<>>
    /\ plans = <<>>
    /\ certificates = <<>>
    /\ pdfs = {}
    /\ uuid_next = 1
    /\ response = Reply("none", "none", 0)
    /\ served = 0
    /\ mentorships = <<>>
    /\ view = Page(0, <<>>)
    /\ tabs = [t \in Tabs |-> Idle]
    /\ \E tables \in BOOLEAN, missing \in SUBSET SchemaColumns, old \in BOOLEAN :
          /\ Cardinality(missing) <= MaxMissing
          /\ old => "users.is_approved" \in missing
          /\ ~tables => missing = {}
          /\ LET found == (SchemaColumns \ missing)
                          \cup (IF old THEN {"users.is_active"} ELSE {})
             IN  startup = [ pc |-> "create_all", k |-> 0, tables |-> tables, columns |-> found,
                             committed |-> found, failed |-> {}, logged |-> <<>> ]

\* import of main.py: ensure_db_schema(), then the routes are served
SyncNext ==
    \/ \E ok \in BOOLEAN : sync_create_all(ok)
    \/ sync_inspect
    \/ \E ok \in BOOLEAN, e \in Engines : sync_check(ok, e)
    \/ \E ok \in BOOLEAN, e \in Engines : sync_commit(ok, e)
    \/ served < MaxSyncRequests /\ health_check

SyncSpec == SyncInit /\ [][SyncNext]_vars

\* the startup code runs to its end
SyncFairSpec == SyncSpec /\ WF_vars(SyncNext)

\* a request of caller c to a route decorated with @role_required(role)
Gated(role, c) ==
    CASE role = "student" ->
           \/ \E subject \in Subjects, m \in MinuteInputs :
                 role_required("student", c, log_study(c, subject, m, 0))
           \/ \E subject \in Subjects :
                 role_required("student", c, start_session(c, subject))
           \/ \E f \in TeacherIdForms :
                 role_required("student", c, request_mentorship(c, f))
      [] role = "teacher" ->
           \E u \in Students, subject \in Subjects, h \in TargetHours :
              role_required("teacher", c, create_study_plan(c, u, subject, h))
      [] role = "admin" ->
           \E e \in Engines, o \in SortOrders :
              role_required("admin", c, admin_dashboard(e, "", "", o))

\* any caller on routes of the three roles
GateNext ==
    \/ served < MaxGateRequests /\ \E c \in Callers : Gated("student", c)
    \/ served < MaxGateRequests /\ \E c \in Callers : Gated("teacher", c)
    \/ served < MaxGateRequests /\ \E c \in Callers : Gated("admin", c)

GateSpec == Init /\ [][GateNext]_vars

\* values of <plan_id> in the URL: ids that exist and ids that do not
PlanIds == 1 .. MaxStatusRequests

\* plans, their progress and their status
StatusNext ==
    \/ /\ served < MaxStatusRequests
       /\ \E t \in Teachers, u \in Students, h \in TargetHours :
             create_study_plan(t, u, "AWS", h)
    \/ /\ served < MaxStatusRequests
       /\ \E u \in Students : log_study(u, "AWS", 90, 0)
    \/ /\ served < MaxStatusRequests
       /\ \E u \in Students, pid \in PlanIds, st \in StatusInputs :
             update_plan_status(u, pid, st)

StatusSpec == Init /\ [][StatusNext]_vars

\* every route of the student role that writes, called by either student,
\* and the teacher's route that gives a student a plan
IsoNext ==
    \/ /\ served < MaxIsoRequests
       /\ \E t \in Teachers, u \in Students, h \in TargetHours :
             create_study_plan(t, u, "AWS", h)
    \/ /\ served < MaxIsoRequests
       /\ \E u \in Students : log_study(u, "AWS", 90, 0)
    \/ /\ served < MaxIsoRequests
       /\ \E u \in Students : start_session(u, "AWS")
    \/ /\ served < MaxIsoRequests
       /\ \E u \in Students, sid \in SessionIds, form \in StopForms :
             stop_session(u, sid, form)
    \/ /\ served < MaxIsoRequests
       /\ \E u \in Students, sid \in SessionIds : validate_focus(u, sid)
    \/ /\ served < MaxIsoRequests
       /\ \E u \in Students : generate_cert(u)
    \/ /\ served < MaxIsoRequests
       /\ \E u \in Students, h \in ExternalHours, f \in ExternalFiles, p \in HexPrefixes :
             upload_external_certificate(u, h, f, p)
    \/ /\ served < MaxIsoRequests
       /\ \E u \in Students, f \in TeacherIdForms : request_mentorship(u, f)
    \/ /\ served < MaxIsoRequests
       /\ \E u \in Students, pid \in PlanIds, st \in StatusInputs :
             update_plan_status(u, pid, st)

IsoSpec == Init /\ [][IsoNext]_vars

\* subjects that differ by case only
PlanSubjects == {"AWS", "aws"}

\* plans and the progress that sessions add to them
PlanNext ==
    \/ Tick
    \/ /\ served < MaxPlanRequests
       /\ \E t \in Teachers, u \in Students, subject \in PlanSubjects, h \in TargetHours :
             create_study_plan(t, u, subject, h)
    \/ /\ served < MaxPlanRequests
       /\ \E u \in Students, subject \in PlanSubjects : log_study(u, subject, 90, 0)
    \/ /\ served < MaxPlanRequests
       /\ \E u \in Students, subject \in PlanSubjects : start_session(u, subject)
    \/ /\ served < MaxPlanRequests
       /\ \E u \in Students, sid \in SessionIds, form \in StopForms :
             stop_session(u, sid, form)

PlanSpec == Init /\ [][PlanNext]_vars

\* values of the 'minutes' form field in the behaviours of HoursSpec
HourMinutes == {9, 60, 120}

\* hour totals: the student dashboard, the eligibility gate and the ranking.
\* The clock stands still: the minutes come from the manual logs.
HoursNext ==
    \/ /\ served < MaxHoursRequests
       /\ \E u \in Students, subject \in Subjects, m \in HourMinutes :
             log_study(u, subject, m, 0)
    \/ /\ served < MaxHoursRequests
       /\ \E u \in Students, subject \in Subjects : start_session(u, subject)
    \/ /\ served < MaxHoursRequests
       /\ \E u \in Students, sid \in SessionIds, form \in StopForms :
             stop_session(u, sid, form)
    \/ /\ served < MaxHoursRequests
       /\ \E u \in Students : generate_cert(u)
    \/ /\ served < MaxHoursRequests
       /\ \E u \in Students : student_dashboard(u)
    \/ /\ served < MaxHoursRequests
       /\ \E e \in Engines, f \in SubjectFilters, d \in DateFilters, o \in SortOrders :
             admin_dashboard(e, f, d, o)

HoursSpec == Init /\ [][HoursNext]_vars

(***************************************************************************)
(* Properties                                                              *)
(***************************************************************************)
\* the sessions of student u that have no end_time
Open(u) ==
    { i \in Ids(sessions) : sessions[i].student_id = u /\ sessions[i].end_time = None }

\* rows 1 .. Len(old) of a table are the same in new
Kept(old, new) ==
    /\ Len(new) >= Len(old)
    /\ \A i \in Ids(old) : new[i] = old[i]

\* h hundredths of an hour is the hundredth nearest to n/d hours
NearestHundredth(h, n, d) ==
    LET e == 100 * n - h * d IN 2 * Abs(e) <= d

\* C1: under one-request-at-a-time execution of log, start, stop and validate
\* calls by any students, no student ever has two sessions without end_time.
C1_OneActiveSession ==
    \A u \in Students : Cardinality(Open(u)) <= 1

\* C1 witness: a student holds an open session next to a closed one of theirs
C1_Witness ==
    \E u \in Students :
       /\ Cardinality(Open(u)) = 1
       /\ \E i \in Ids(sessions) :
             sessions[i].student_id = u /\ sessions[i].end_time # None

\* C2: a start by a student who has an open session is answered with the
\* conflict, creates no session and leaves every session as it was.
C2_StartRejectedWhileActive ==
    [][ \A u \in Students, subject \in Subjects :
           (start_session(u, subject) /\ Open(u) # {})
           => /\ sessions' = sessions
              /\ response'.status = "ConflictError"
              /\ Open(u)' = Open(u) ]_vars

\* C2 witness: a start was turned away and the session it met is still open
C2_Witness ==
    /\ response.op = "start_session"
    /\ response.status = "ConflictError"
    /\ response.ref \in Ids(sessions)
    /\ sessions[response.ref].end_time = None
    /\ Len(sessions) = 1

\* C3: every session has duration_minutes >= 0, and a session with start and
\* end set has duration_minutes = (end_time - start_time) in whole minutes,
\* whatever minutes value a manual log submitted.
C3_DurationNonNegativeAndDerived ==
    \A i \in Ids(sessions) :
       /\ sessions[i].duration_minutes >= 0
       /\ sessions[i].end_time # None =>
             sessions[i].duration_minutes =
                IntTrunc(sessions[i].end_time[1] - sessions[i].start_time, 60)

\* the step is a manual log, or a stop of a session, by plan p's student on
\* plan p's subject
CompletedFor(p) ==
    LET u == plans[p].student_id
        subject == plans[p].target_subject
    IN  \/ \E m \in MinuteInputs, gap \in ReadGaps : log_study(u, subject, m, gap)
        \/ \E sid \in Ids(sessions), form \in StopForms :
              /\ stop_session(u, sid, form)
              /\ sessions[sid].student_id = u
              /\ sessions[sid].subject = subject
              /\ sessions'[sid].end_time # None

\* C4: completed_hours of a plan never decreases, and changes only in a step
\* that completes a session of the plan's student on the plan's subject.
C4_CompletedHoursMonotone ==
    [][ \A p \in Ids(plans) :
           /\ plans'[p].completed_hours >= plans[p].completed_hours
           /\ plans'[p].completed_hours # plans[p].completed_hours => CompletedFor(p)
      ]_vars

\* C5: a manual log of m minutes adds one session, closed, validated, of
\* duration m, started m minutes before the clock reading taken for start_time
\* and ended at the clock reading taken for end_time, and adds the hundredth
\* of an hour nearest to m/60 to the student's plan on that subject (1.5 hours
\* for 90 minutes) and to no other plan.
C5_ManualLog ==
    [][ \A u \in Students, subject \in Subjects, m \in MinuteInputs, gap \in ReadGaps :
           log_study(u, subject, m, gap)
           => LET n == sessions'[Len(sessions')]
                  match == { p \in Ids(plans) : plans[p].student_id = u
                                                /\ plans[p].target_subject = subject }
              IN  /\ Len(sessions') = Len(sessions) + 1
                  /\ Kept(sessions, sessions')
                  /\ n.student_id = u /\ n.subject = subject
                  /\ n.start_time = clock - 60 * m
                  /\ n.end_time = Some(clock')
                  /\ n.duration_minutes = m
                  /\ n.is_validated
                  /\ Len(plans') = Len(plans)
                  /\ \A p \in Ids(plans) :
                        LET added == plans'[p].completed_hours - plans[p].completed_hours
                        IN  IF p \in match
                               /\ \A q \in match : plans[p].heap_pos <= plans[q].heap_pos
                            THEN /\ NearestHundredth(added, m, 60)
                                 /\ m = 90 => added = 150
                            ELSE added = 0
      ]_vars

\* C5 witness: 90 minutes were logged on the subject of a plan that now shows 1.5 hours
C5_Witness ==
    /\ response.op = "log_study"
    /\ sessions[response.ref].duration_minutes = 90
    /\ \E p \in Ids(plans) :
          /\ plans[p].student_id = sessions[response.ref].student_id
          /\ plans[p].target_subject = sessions[response.ref].subject
          /\ plans[p].completed_hours = 150

\* the owner closes the open session sid, whose subject one of the owner's
\* plans targets
StopsWithPlan(u, sid, form) ==
    /\ sid \in Ids(sessions)
    /\ sessions[sid].student_id = u
    /\ sessions[sid].end_time = None
    /\ \E p \in Ids(plans) : plans[p].student_id = u
                             /\ plans[p].target_subject = sessions[sid].subject
    /\ stop_session(u, sid, form)

\* what the step adds to the plan of u on the subject of session sid that
\* the table scan meets first
AddedToPlan(u, sid) ==
    LET match == { p \in Ids(plans) : plans[p].student_id = u
                                      /\ plans[p].target_subject = sessions[sid].subject }
        p == CHOOSE q \in match : \A r \in match : plans[q].heap_pos <= plans[r].heap_pos
    IN  plans'[p].completed_hours - plans[p].completed_hours

\* C6 as stated: the stop that closes a session adds to the matching plan the
\* stored duration_minutes (the truncated whole minutes) / 60, rounded to 2
\* decimals, whatever time elapsed.
C6_StopAddsStoredMinutes ==
    [][ \A u \in Students, sid \in SessionIds, form \in StopForms :
           StopsWithPlan(u, sid, form)
           => NearestHundredth(AddedToPlan(u, sid), sessions'[sid].duration_minutes, 60)
      ]_vars

\* C6 as amended: the stop that closes a session adds to the matching plan the
\* elapsed time itself, (end_time - start_time) in seconds / 3600, rounded to
\* 2 decimals; the stored duration_minutes is that time truncated to whole
\* minutes.
C6_StopAddsElapsedTime ==
    [][ \A u \in Students, sid \in SessionIds, form \in StopForms :
           StopsWithPlan(u, sid, form)
           => LET elapsed == sessions'[sid].end_time[1] - sessions'[sid].start_time
              IN  /\ sessions'[sid].end_time = Some(clock)
                  /\ NearestHundredth(AddedToPlan(u, sid), elapsed, 3600)
                  /\ sessions'[sid].duration_minutes = IntTrunc(elapsed, 60)
      ]_vars

\* C6 witness: a session stopped after 30 seconds has 0 stored minutes and
\* its plan has 0.01 hours
C6_Witness ==
    /\ response.op = "stop_session"
    /\ response.status = "success"
    /\ LET s == sessions[response.ref]
       IN  /\ s.end_time[1] - s.start_time = 30
           /\ s.duration_minutes = 0
           /\ \E p \in Ids(plans) :
                 /\ plans[p].student_id = s.student_id
                 /\ plans[p].target_subject = s.subject
                 /\ plans[p].completed_hours = 1

\* C7: a stop asked by a student who does not own the session is answered
\* with the authorization error and changes no session and no plan.
C7_StopByOtherStudent ==
    [][ \A u \in Students, sid \in SessionIds, form \in StopForms :
           (sid \in Ids(sessions) /\ sessions[sid].student_id # u
              /\ stop_session(u, sid, form))
           => /\ response'.status = "AuthorizationError"
              /\ sessions' = sessions
              /\ plans' = plans ]_vars

\* C7 witness: a stop was refused on an open session whose subject has a plan
C7_Witness ==
    /\ response.op = "stop_session"
    /\ response.status = "AuthorizationError"
    /\ sessions[response.ref].end_time = None
    /\ \E p \in Ids(plans) :
          /\ plans[p].student_id = sessions[response.ref].student_id
          /\ plans[p].target_subject = sessions[response.ref].subject

\* C8: generate_cert stores no certificate when TotalHours is below 1.0, and
\* otherwise stores exactly one, of the requesting student, not external,
\* with a verification_code no stored certificate has.
C8_GenerateGate ==
    [][ \A u \in Students :
           generate_cert(u)
           => IF TotalHours(u) < 10
              THEN /\ certificates' = certificates
                   /\ response'.status = "IneligibleError"
              ELSE LET c == certificates'[Len(certificates')]
                   IN  /\ Len(certificates') = Len(certificates) + 1
                       /\ Kept(certificates, certificates')
                       /\ c.student_id = u
                       /\ ~c.is_external
                       /\ \A i \in Ids(certificates) :
                             certificates[i].verification_code # c.verification_code
      ]_vars

\* C8 witness: a certificate was generated at exactly 1.0 hours next to an earlier one
C8_Witness ==
    /\ response.op = "generate_cert"
    /\ response.status = "success"
    /\ Len(certificates) = 2
    /\ certificates[response.ref].total_hours = 10

\* C8 witness of the refusal: a student with sessions but under one hour was turned away
C8_WitnessRefused ==
    /\ response.op = "generate_cert"
    /\ response.status = "IneligibleError"
    /\ certificates = <<>>

\* C9: a lookup changes nothing; for the code printed on a generated
\* certificate it finds the certificate of the student it was generated for,
\* with the hours printed at generation; for a code no certificate bears it
\* finds nothing; and generation prints the requester and TotalHours as of then.
C9_VerifyRoundTrip ==
    [][ /\ \A code \in VerifyInputs :
              verify_certificate(code)
              => /\ UNCHANGED <<sessions, plans, certificates, pdfs>>
                 /\ \A p \in pdfs :
                       p.code = code
                       => /\ response'.status = "found"
                          /\ response'.ref \in Ids(certificates)
                          /\ certificates[response'.ref].verification_code = code
                          /\ certificates[response'.ref].student_id = p.student
                          /\ certificates[response'.ref].total_hours = p.total_hours
                 /\ (\A i \in Ids(certificates) :
                        certificates[i].verification_code # code)
                    => response'.status = "not_found" /\ response'.ref = 0
        /\ \A u \in Students :
              (generate_cert(u) /\ TotalHours(u) >= 10)
              => \E p \in pdfs' \ pdfs :
                    /\ pdfs' = pdfs \cup {p}
                    /\ p.student = u
                    /\ p.total_hours = TotalHours(u)
                    /\ \A q \in pdfs : q.code # p.code
      ]_vars

\* C9 witness: a generated certificate is looked up after its student's total moved on
C9_Witness ==
    /\ response.op = "verify_certificate"
    /\ response.status = "found"
    /\ ~certificates[response.ref].is_external
    /\ TotalHours(certificates[response.ref].student_id)
          # certificates[response.ref].total_hours

\* C10: no two certificates bear the same verification_code, and no step
\* changes or removes a certificate that exists.
C10_CertificateLedger ==
    /\ [](\A i, j \in Ids(certificates) :
             certificates[i].verification_code = certificates[j].verification_code
             => i = j)
    /\ [][Kept(certificates, certificates')]_vars

\* C10 witness: a second certificate was refused for bearing the code of the first
C10_Witness ==
    /\ response.op = "upload_external_certificate"
    /\ response.status = "IntegrityError"
    /\ Len(certificates) = 1

\* C10 witness of the ledger: two certificates, the first generated before the
\* sessions that now make up another total
C10_WitnessFrozen ==
    /\ Len(certificates) = 2
    /\ ~certificates[1].is_external
    /\ TotalHours(certificates[1].student_id) # certificates[1].total_hours

\* the step is a manual log, a start or a stop asked by student u
StudyStepBy(u) ==
    \/ \E subject \in Subjects, m \in MinuteInputs, gap \in ReadGaps :
          log_study(u, subject, m, gap)
    \/ \E subject \in Subjects : start_session(u, subject)
    \/ \E sid \in SessionIds, form \in StopForms : stop_session(u, sid, form)

\* C11: after a manual log, a start or a stop by a student, TotalHours of
\* that student is greater than or equal to its value before the step.
C11_TotalHoursMonotone ==
    [][ \A u \in Students : StudyStepBy(u) => TotalHours(u)' >= TotalHours(u) ]_vars

\* the sessions of student u
SessionsOf(u) == { i \in Ids(sessions) : sessions[i].student_id = u }

\* the sum of duration_minutes over the sessions with ids in S
RECURSIVE MinutesOver(_)
MinutesOver(S) ==
    IF S = {} THEN 0
    ELSE LET i == CHOOSE j \in S : TRUE
         IN  sessions[i].duration_minutes + MinutesOver(S \ {i})

\* h tenths of an hour is a tenth nearest to n/d hours
NearestTenth(h, n, d) ==
    LET e == 10 * n - h * d IN 2 * Abs(e) <= d

\* C12: the total the dashboard shows is the sum of duration_minutes over the
\* student's sessions (0 for an open session) / 60 rounded to 1 decimal, 0
\* with no session, and changes nothing; generate_cert refuses exactly when
\* that same value is below 1.0 and otherwise prints it on the certificate.
C12_TotalHoursDefinition ==
    [][ \A u \in Students :
           /\ student_dashboard(u)
              => /\ NearestTenth(view'.total_hours, MinutesOver(SessionsOf(u)), 60)
                 /\ SessionsOf(u) = {} => view'.total_hours = 0
                 /\ UNCHANGED <<sessions, plans, certificates>>
           /\ generate_cert(u)
              => /\ NearestTenth(TotalHours(u), MinutesOver(SessionsOf(u)), 60)
                 /\ (response'.status = "IneligibleError") = (DashboardHours(u) < 10)
                 /\ response'.status # "IneligibleError"
                    => certificates'[Len(certificates')].total_hours = DashboardHours(u)
      ]_vars

\* C12 witness: the dashboard shows 0.1 hours to the only student with
\* sessions, who has 9 minutes logged and one session open
C12_Witness ==
    /\ response.op = "student_dashboard"
    /\ view.total_hours = 1
    /\ \E u \in Students :
          /\ SessionsOf(u) = Ids(sessions)
          /\ MinutesOver(SessionsOf(u)) = 9
          /\ Open(u) # {}

\* C12 witness of the gate: a certificate was generated for 69 minutes
C12_WitnessGate ==
    /\ response.op = "generate_cert"
    /\ response.status = "success"
    /\ certificates[response.ref].total_hours = 11

\* C13: the insert of a start whose query found no active session is made
\* whatever was committed since the query: the student gets one more open
\* session, also when another request of theirs opened one in between, so
\* that two open sessions of one student are reachable.
C13_StartRace ==
    [][ \A t \in Tabs, u \in Students :
           (start_session_commit(t) /\ tabs[t].u = u /\ tabs[t].active = 0)
           => /\ Len(sessions') = Len(sessions) + 1
              /\ Kept(sessions, sessions')
              /\ sessions'[Len(sessions')].student_id = u
              /\ sessions'[Len(sessions')].end_time = None
              /\ Cardinality(Open(u))' = Cardinality(Open(u)) + 1
      ]_vars

\* C13 witness: both tabs of one student were answered with success and the
\* student has two sessions without end_time
C13_Witness ==
    /\ \A t \in Tabs : tabs[t].pc = "idle"
    /\ response.op = "start_session"
    /\ response.status = "success"
    /\ \E u \in Students : Cardinality(Open(u)) = 2

\* C14: no two mentorship records have the same (student_id, teacher_id);
\* a request for a pair that has a record, or for a teacher_id that is not
\* the id of a user with role teacher, leaves the table as it was; no
\* request changes or removes a record.
C14_OneMentorshipPerPair ==
    /\ [](\A i, j \in Ids(mentorships) :
             (mentorships[i].student_id = mentorships[j].student_id
              /\ mentorships[i].teacher_id = mentorships[j].teacher_id) => i = j)
    /\ [][ \A u \in Students, f \in TeacherIdForms :
              request_mentorship(u, f)
              => /\ Kept(mentorships, mentorships')
                 /\ (\/ ~isdigit(f)
                     \/ IntOf(f) \notin DOMAIN Users
                     \/ Users[IntOf(f)].role # "teacher"
                     \/ \E i \in Ids(mentorships) :
                           mentorships[i].student_id = u
                           /\ mentorships[i].teacher_id = IntOf(f))
                    => mentorships' = mentorships
       ]_vars

\* C14 witness: a student who has a record with teacher 3 asked for that
\* teacher again and was told of the record; the table holds two records
C14_Witness ==
    /\ response.op = "request_mentorship"
    /\ response.status = "ConflictError"
    /\ mentorships[response.ref].teacher_id = 3
    /\ Len(mentorships) = 2

\* table tbl with is_validated of row sid set
Validated(tbl, sid) == [tbl EXCEPT ![sid].is_validated = TRUE]

\* C15: a validation asked by the owner sets is_validated of that session
\* and changes no other field, session, plan or certificate; asked again it
\* gives the same table; asked by another student it is refused and the
\* sessions are as before.
C15_ValidateIdempotent ==
    [][ \A u \in Students, sid \in SessionIds :
           (sid \in Ids(sessions) /\ validate_focus(u, sid))
           => IF sessions[sid].student_id = u
              THEN /\ sessions' = Validated(sessions, sid)
                   /\ Validated(sessions', sid) = sessions'
                   /\ UNCHANGED <<plans, certificates, clock>>
              ELSE /\ response'.status = "AuthorizationError"
                   /\ UNCHANGED <<sessions, plans, certificates, clock>>
      ]_vars

\* C15 witness: an open session, which only a validation can have marked,
\* is validated
C15_Witness ==
    /\ response.op = "validate_focus"
    /\ response.status = "success"
    /\ sessions[response.ref].end_time = None
    /\ sessions[response.ref].is_validated

\* C15 witness of the refusal: another student's unvalidated session
C15_WitnessRefused ==
    /\ response.op = "validate_focus"
    /\ response.status = "AuthorizationError"
    /\ ~sessions[response.ref].is_validated

\* C16: the ranking has one entry for every user with role student, with
\* the tenth of an hour nearest to the student's summed minutes / 60 (0 with
\* no sessions), in descending order of summed minutes, a student without
\* sessions counting as 0, or in ascending order when sort = asc; students
\* with 120 and 60 minutes come in this order, with 2.0 and 1.0 hours.
C16_Ranking ==
    [][ \A e \in Engines, f \in SubjectFilters, d \in DateFilters, o \in SortOrders :
           admin_dashboard(e, f, d, o)
           => LET r == view'.ranking
                  Minutes(i) == MinutesOver(SessionsOf(r[i].id))
              IN  /\ Len(r) = Cardinality(StudentUsers)
                  /\ \A id \in StudentUsers : \E i \in DOMAIN r : r[i].id = id
                  /\ \A i \in DOMAIN r :
                        /\ NearestTenth(r[i].hours, Minutes(i), 60)
                        /\ SessionsOf(r[i].id) = {} => r[i].hours = 0
                  /\ \A i, j \in DOMAIN r :
                        i < j => IF o = "asc" THEN Minutes(i) <= Minutes(j)
                                 ELSE Minutes(i) >= Minutes(j)
                  /\ \A i, j \in DOMAIN r :
                        (o = "desc" /\ Minutes(i) = 120 /\ Minutes(j) = 60)
                        => i < j /\ r[i].hours = 20 /\ r[j].hours = 10
      ]_vars

\* C17: with a subject filter, a date filter or both, the hours of every
\* entry of the ranking are those of the student's sessions that match the
\* filters, and the entries are ordered by these filtered totals.
C17_FiltersBeforeAggregation ==
    [][ \A e \in Engines, f \in SubjectFilters, d \in DateFilters, o \in SortOrders :
           (admin_dashboard(e, f, d, o) /\ (f # "" \/ d # ""))
           => LET r == view'.ranking
                  Matching(i) == MinutesOver(SessionsOf(r[i].id)
                                             \cap FilteredSessions(f, d))
              IN  /\ \A i \in DOMAIN r : NearestTenth(r[i].hours, Matching(i), 60)
                  /\ \A i, j \in DOMAIN r :
                        i < j => IF o = "asc" THEN Matching(i) <= Matching(j)
                                 ELSE Matching(i) >= Matching(j)
      ]_vars

\* C18: when startup is over, every column that was missing is there, save
\* those whose own statement failed: a failure on one does not keep the
\* later ones from being checked and added.
C18_SyncFailuresIsolated ==
    startup.pc = "serving"
    => \A c \in SchemaColumns : c \in startup.columns \/ c \in startup.failed

\* whatever fails, startup comes to serve requests
C18_StartupServes == <>(startup.pc = "serving")

\* C19: a request to a role-gated route by a visitor is sent to login, by a
\* user of another role to the dashboard, by an unapproved user of the role
\* to the waiting room, and then no table changes; otherwise the body runs.
C19_RoleGate ==
    [][ \A c \in Callers, role \in {"student", "teacher", "admin"} :
           Gated(role, c)
           => LET kept == UNCHANGED <<sessions, plans, certificates, mentorships,
                                      pdfs, clock, view>>
                  sent == response'.op = "role_required"
              IN  IF c = 0 THEN sent /\ response'.status = "login" /\ kept
                  ELSE IF Users[c].role # role
                  THEN sent /\ response'.status = "dashboard" /\ kept
                  ELSE IF ~Users[c].is_approved
                  THEN sent /\ response'.status = "waiting" /\ kept
                  ELSE ~sent
      ]_vars

\* C19 witness: after a request that went through, one was sent to the
\* waiting room
C19_Witness ==
    /\ response.op = "role_required"
    /\ response.status = "waiting"
    /\ sessions # <<>> \/ plans # <<>> \/ mentorships # <<>>

\* student u logs on subject s, or closes or closes again a session of
\* theirs on subject s, in this step
ProgressStep(u, s) ==
    \/ log_study(u, s, 90, 0)
    \/ \E sid \in Ids(sessions), form \in StopForms :
          /\ stop_session(u, sid, form)
          /\ sessions[sid].student_id = u
          /\ sessions[sid].subject = s

\* the plans of student u whose target_subject is exactly s
PlansOn(u, s) ==
    { p \in Ids(plans) : plans[p].student_id = u /\ plans[p].target_subject = s }

\* C20: the progress update of a log or stop changes no plan but the first
\* (earliest created) plan of the acting student whose target_subject
\* equals the session's subject, case included; with no such plan no plan
\* changes; the session is recorded either way.
C20_OnlyFirstMatchingPlan ==
    [][ \A u \in Students, s \in PlanSubjects :
           ProgressStep(u, s)
           => /\ Len(plans') = Len(plans)
              /\ \A p \in Ids(plans) :
                    (p \notin PlansOn(u, s) \/ \E q \in PlansOn(u, s) : q < p)
                    => plans'[p].completed_hours = plans[p].completed_hours
              /\ \E i \in Ids(sessions') :
                    /\ sessions'[i].student_id = u /\ sessions'[i].subject = s
                    /\ sessions'[i].end_time = Some(clock')
      ]_vars

\* the part of C20 that holds: at most one plan changes, one of the acting
\* student's plans on exactly the session's subject
C20_OneMatchingPlan ==
    [][ \A u \in Students, s \in PlanSubjects :
           ProgressStep(u, s)
           => /\ Len(plans') = Len(plans)
              /\ \A p, q \in Ids(plans) :
                    (plans'[p].completed_hours # plans[p].completed_hours
                     /\ plans'[q].completed_hours # plans[q].completed_hours)
                    => p = q /\ p \in PlansOn(u, s)
              /\ \E i \in Ids(sessions') :
                    /\ sessions'[i].student_id = u /\ sessions'[i].subject = s
                    /\ sessions'[i].end_time = Some(clock')
      ]_vars

\* C21: every plan has status backlog, active or completed; an
\* update_plan_status changes the status of the named plan only, to the
\* requested value, when the caller is its student and the value is one of
\* the three; for another student or another value it answers with an error
\* and leaves the plans as they were; it never changes completed_hours or
\* target_hours.
C21_PlanStatus ==
    /\ [](\A p \in Ids(plans) : plans[p].status \in {"backlog", "active", "completed"})
    /\ [][ \A u \in Students, pid \in PlanIds, st \in StatusInputs :
              (pid \in Ids(plans) /\ update_plan_status(u, pid, st))
              => LET allowed == plans[pid].student_id = u
                                /\ st \in {"backlog", "active", "completed"}
                 IN  /\ Len(plans') = Len(plans)
                     /\ \A p \in Ids(plans) :
                           /\ plans'[p].completed_hours = plans[p].completed_hours
                           /\ plans'[p].target_hours = plans[p].target_hours
                           /\ plans'[p].status =
                                 IF p = pid /\ allowed THEN st ELSE plans[p].status
                     /\ ~allowed => /\ plans' = plans
                                    /\ response'.status \in {"AuthorizationError",
                                                             "ValidationError"}
       ]_vars

\* C21 witness: a plan with hours on it was set to completed by its student
C21_Witness ==
    /\ response.op = "update_plan_status"
    /\ response.status = "success"
    /\ plans[response.ref].status = "completed"
    /\ plans[response.ref].completed_hours = 150

\* C21 witness of the refusals: a plan not at its initial status, after a
\* request that was turned away
C21_WitnessRefused ==
    /\ response.op = "update_plan_status"
    /\ response.status \in {"AuthorizationError", "ValidationError"}
    /\ plans[response.ref].status = "backlog"

\* C22: a session that has end_time keeps its end_time and duration_minutes
\* in every later step, a stop of it by its owner included, and such a stop
\* adds nothing more to the completed_hours of any plan.
C22_ClosedSessionFrozen ==
    [][ \A sid \in Ids(sessions) :
           sessions[sid].end_time # None
           => /\ sessions'[sid].end_time = sessions[sid].end_time
              /\ sessions'[sid].duration_minutes = sessions[sid].duration_minutes
              /\ \A u \in Students, form \in StopForms :
                    stop_session(u, sid, form)
                    => \A p \in Ids(plans) :
                          plans'[p].completed_hours = plans[p].completed_hours
       ]_vars

\* C22, the part that holds: a closed session keeps end_time and
\* duration_minutes in every step that is not a stop of it by its owner.
C22_FrozenButForStop ==
    [][ \A sid \in Ids(sessions) :
           (/\ sessions[sid].end_time # None
            /\ ~ \E form \in StopForms :
                   stop_session(sessions[sid].student_id, sid, form))
           => /\ sessions'[sid].end_time = sessions[sid].end_time
              /\ sessions'[sid].duration_minutes = sessions[sid].duration_minutes
       ]_vars

\* C22, the plan's side alone: a stop of a closed session adds nothing
C22_NoSecondCredit ==
    [][ \A sid \in Ids(sessions), u \in Students, form \in StopForms :
           (sessions[sid].end_time # None /\ stop_session(u, sid, form))
           => \A p \in Ids(plans) :
                 plans'[p].completed_hours = plans[p].completed_hours
       ]_vars

\* C22, the session's side alone: end_time and duration_minutes of a closed
\* session stay
C22_EndTimeKept ==
    [][ \A sid \in Ids(sessions) :
           sessions[sid].end_time # None
           => /\ sessions'[sid].end_time = sessions[sid].end_time
              /\ sessions'[sid].duration_minutes = sessions[sid].duration_minutes
       ]_vars

\* C23: every session that has end_time is validated; a start that is
\* accepted adds a session without end_time that is not validated; a log and
\* a stop that is carried out leave their session with end_time and
\* validated; no step takes is_validated of a session from TRUE to FALSE.
C23_ClosedIsValidated ==
    /\ [](\A sid \in Ids(sessions) :
            sessions[sid].end_time # None => sessions[sid].is_validated)
    /\ [][ /\ \A sid \in Ids(sessions) :
                /\ sid \in Ids(sessions')
                /\ sessions[sid].is_validated => sessions'[sid].is_validated
           /\ (served' # served /\ response'.status = "success")
              => LET sid == response'.ref
                 IN  CASE response'.op = "start_session" ->
                            /\ sid = Len(sessions) + 1
                            /\ sessions'[sid].end_time = None
                            /\ ~sessions'[sid].is_validated
                       [] response'.op = "log_study" ->
                            /\ sid = Len(sessions) + 1
                            /\ sessions'[sid].end_time # None
                            /\ sessions'[sid].is_validated
                       [] response'.op = "stop_session" ->
                            /\ sessions'[sid].end_time # None
                            /\ sessions'[sid].is_validated
                       [] OTHER -> TRUE
       ]_vars

\* C23 witness: a session started unvalidated was closed by a stop and is
\* validated, and a validation of it was then asked
C23_Witness ==
    /\ response.op = "validate_focus"
    /\ response.status = "success"
    /\ sessions[response.ref].end_time # None
    /\ sessions[response.ref].completion_comment # None
    /\ sessions[response.ref].is_validated

\* C23 witness of the other case: a session without end_time that a
\* validation has marked, beside a closed one
C23_WitnessOpenValidated ==
    \E a, b \in Ids(sessions) :
        /\ sessions[a].end_time = None /\ sessions[a].is_validated
        /\ sessions[b].end_time # None

\* a request of the student role made by student a
StudentOpBy(a) ==
    \/ log_study(a, "AWS", 90, 0)
    \/ start_session(a, "AWS")
    \/ \E sid \in SessionIds, form \in StopForms : stop_session(a, sid, form)
    \/ \E sid \in SessionIds : validate_focus(a, sid)
    \/ generate_cert(a)
    \/ \E h \in ExternalHours, f \in ExternalFiles, p \in HexPrefixes :
          upload_external_certificate(a, h, f, p)
    \/ \E f \in TeacherIdForms : request_mentorship(a, f)
    \/ \E pid \in PlanIds, st \in StatusInputs : update_plan_status(a, pid, st)

\* the columns of a plan: the row without its place in the table scan
Columns(row) == [row EXCEPT !.heap_pos = 0]

\* the step adds, changes or removes a row of old that is not of student a
TouchesOthers(a, old, new) ==
    \/ Len(new) < Len(old)
    \/ \E i \in Ids(old) : i \in Ids(new) /\ old[i].student_id # a /\ new[i] # old[i]
    \/ \E i \in Ids(new) : i \notin Ids(old) /\ new[i].student_id # a

\* student_id of the rows of old is the same in new
SameStudents(old, new) ==
    \A i \in Ids(old) : i \in Ids(new) => new[i].student_id = old[i].student_id

\* C24: a step that adds, changes or removes a session, plan, certificate or
\* mentorship of another student than a is no log, start, stop, validate,
\* certificate generation or registration, mentorship request or plan status
\* update made by student a; and no step changes the student_id of a
\* session, plan, certificate or mentorship.
C24_StudentIsolation ==
    [][ /\ \A a \in Students :
             (\/ TouchesOthers(a, sessions, sessions')
              \/ TouchesOthers(a, [i \in Ids(plans) |-> Columns(plans[i])],
                                  [i \in Ids(plans') |-> Columns(plans'[i])])
              \/ TouchesOthers(a, certificates, certificates')
              \/ TouchesOthers(a, mentorships, mentorships'))
             => ~StudentOpBy(a)
        /\ SameStudents(sessions, sessions')
        /\ SameStudents(plans, plans')
        /\ SameStudents(certificates, certificates')
        /\ SameStudents(mentorships, mentorships')
      ]_vars

\* C24 witness: student 2 has a session and a plan, and student 1, who has
\* rows too, asked to stop that session or to update that plan
C24_Witness ==
    /\ response.op \in {"stop_session", "update_plan_status"}
    /\ response.status = "AuthorizationError"
    /\ \E i \in Ids(sessions) : sessions[i].student_id = 1
    /\ \/ /\ response.op = "stop_session"
          /\ sessions[response.ref].student_id = 2
       \/ /\ response.op = "update_plan_status"
          /\ plans[response.ref].student_id = 2

\* C24 witness of the writes: the last request changed a plan of student 1
\* while student 2 has a plan on the same subject
C24_WitnessWrites ==
    /\ response.op = "log_study"
    /\ sessions[response.ref].student_id = 1
    /\ \E p, q \in Ids(plans) :
          /\ plans[p].student_id = 1 /\ plans[p].completed_hours > 0
          /\ plans[q].student_id = 2 /\ plans[q].completed_hours = 0
====
